---- MODULE Spec2Model ----
(***************************************************************************)
(* The adaptive encode/decode context of xpra's x264lib.c: the quality     *)
(* policy functions, the H.264 encoder context (open, set quality, set     *)
(* speed, encode one frame, close) and the H.264 decoder context (open,    *)
(* set chroma format, decode one frame, close), with the libx264,          *)
(* libavcodec and libswscale objects they own; and the VP8 contexts of     *)
(* vpxlib.c (open, decode one frame, close).                               *)
(*                                                                         *)
(* A context is a record of the fields of struct x264lib_ctx.  The engine  *)
(* instances and the colour converters live in two heaps (sequences); a    *)
(* handle is the index of the object in its heap and NULL is 0, so every   *)
(* allocation yields a handle never seen before.  The library calls that   *)
(* can fail take their outcome as a parameter chosen by the environment.   *)
(* width and height never change after open and no function branches on    *)
(* them, so they are left out of the record.                               *)
(***************************************************************************)
EXTENDS Integers, Sequences, FiniteSets, TLC

VARIABLES role, ctx, engines, cscs, pic, fault, failures, last,
          arg_pct, arg_csc, derived, closed

vars ==
    <<role, ctx, engines, cscs, pic, fault, failures, last, arg_pct, arg_csc, derived,
      closed>>

(***************************************************************************)
(* Bounds of the model.                                                    *)
(***************************************************************************)
\* percentages given to the context operations: within PctRadius of each
\* value the code branches on (0, 50, 80, 90, 100)
PctRadius == 1
\* engine instances (and converters) one context may create
MaxHandles == 2
\* library calls (x264_encoder_open, sws_getContext, avcodec_find_decoder,
\* avcodec_open2) that fail in one run
MaxFailures == 1
\* the policy functions are applied to every integer from 0 - PctMargin
\* to 100 + PctMargin
PctMargin == 5

(***************************************************************************)
(* Program constants.                                                      *)
(***************************************************************************)
NULL == 0
I422_MIN_QUALITY == 80
I444_MIN_QUALITY == 90
X264_CSP_I420 == 1
X264_CSP_I422 == 4
X264_CSP_I444 == 7
PIX_FMT_YUV420P == 0
PIX_FMT_YUV422P == 4
PIX_FMT_YUV444P == 5
SUPPORT_CSC_MODES == 1

PROFILE_BASELINE == "baseline"
PROFILE_HIGH422 == "high422"
PROFILE_HIGH444_PREDICTIVE == "high444"
x264_preset_names ==
    <<"ultrafast", "superfast", "veryfast", "faster", "fast", "medium",
      "slow", "slower", "veryslow", "placebo">>

\* beware: C indexes x264_preset_names from 0
preset_name(i) == x264_preset_names[i + 1]

MAX(a, b) == IF a > b THEN a ELSE b
MIN(a, b) == IF a < b THEN a ELSE b

\* roundf of the rational n/d (d > 0): nearest integer, halves away from zero
roundf(n, d) ==
    IF n >= 0 THEN (2 * n + d) \div (2 * d)
    ELSE -((2 * (-n) + d) \div (2 * d))

\* conversion of the double n/d (d > 0) to int: truncation towards zero
double_to_int(n, d) ==
    IF n >= 0 THEN n \div d ELSE -((-n) \div d)

\* x & ~0x1 on a two's complement int
clear_bit0(x) == x - (x % 2)

(***************************************************************************)
(* The quality policy.                                                     *)
(***************************************************************************)
\* get_x264_quality with the float truncated instead of rounded
get_x264_quality_truncating(pct) ==
    double_to_int(50 * 100 - MIN(100, MAX(0, pct)) * 49, 100)

\* roundf(50.0 - (MIN(100, MAX(0, pct)) * 49.0 / 100.0)), in hundredths
get_x264_quality(pct) ==
    roundf(50 * 100 - MIN(100, MAX(0, pct)) * 49, 100)

\* get_x264_colour_sampling with the thresholds compared by <=
get_x264_colour_sampling_off_by_one(c, pct) ==
    IF (~c.supports_csc_option) \/ pct <= I422_MIN_QUALITY
    THEN X264_CSP_I420
    ELSE IF pct <= I444_MIN_QUALITY
         THEN X264_CSP_I422
         ELSE X264_CSP_I444

get_x264_colour_sampling(c, pct) ==
    IF SUPPORT_CSC_MODES = 1
    THEN IF (~c.supports_csc_option) \/ pct < I422_MIN_QUALITY
         THEN X264_CSP_I420
         ELSE IF pct < I444_MIN_QUALITY
              THEN X264_CSP_I422
              ELSE X264_CSP_I444
    ELSE X264_CSP_I420

get_csc_format_for_x264_format(i_csp) ==
    IF i_csp = X264_CSP_I420 THEN PIX_FMT_YUV420P
    ELSE IF SUPPORT_CSC_MODES = 1 /\ i_csp = X264_CSP_I422 THEN PIX_FMT_YUV422P
    ELSE IF SUPPORT_CSC_MODES = 1 /\ i_csp = X264_CSP_I444 THEN PIX_FMT_YUV444P
    ELSE -1

get_csc_algo_for_quality(initial_quality) == "SWS_SINC|SWS_ACCURATE_RND"

get_profile_for_quality(pct) ==
    IF pct < I422_MIN_QUALITY THEN PROFILE_BASELINE
    ELSE IF pct < I444_MIN_QUALITY THEN PROFILE_HIGH422
    ELSE PROFILE_HIGH444_PREDICTIVE

\* the preset index with pct/12.5 rounded to the nearest integer first
new_preset_for_speed_rounding(pct) ==
    7 - MAX(0, MIN(7, roundf(2 * pct, 25)))

\* int new_preset = 7-MAX(0, MIN(7, pct/12.5)): pct/12.5 is the double
\* 2*pct/25, the macros pick among doubles, and the double 7 - ... is
\* truncated by the conversion to int.  Computed in 25ths.
new_preset_for_speed(pct) ==
    double_to_int(7 * 25 - MAX(0, MIN(7 * 25, 2 * pct)), 25)

(***************************************************************************)
(* The libraries.  A world w is the record [ctx, engines, cscs, pic,       *)
(* fault, rc, ev]: the context, the two heaps, the image the caller holds, *)
(* whether the process has faulted, the value the call returns, and the    *)
(* library events of the call in progress (handles released, handles       *)
(* created, engine reconfigurations, frames handed to the engine).         *)
(***************************************************************************)
NoParam == [attached |-> FALSE, intact |-> FALSE, f_rf_constant |-> 0]

NoEvents ==
    [released |-> {}, created |-> {}, reconfigs |-> 0, invoked |-> 0,
     failed |-> 0, frame |-> NoParam, pic_frees |-> 0]

\* a library call that fails
library_failure(w) == [w EXCEPT !.ev.failed = @ + 1]


\* x264_param_default_preset: libx264 first resets the whole block to its
\* defaults (4:2:0, constant rate factor 23), then applies preset and tune
x264_param_default_preset(preset, tune) ==
    [preset |-> preset, tune |-> tune, profile |-> "",
     i_csp |-> X264_CSP_I420, f_rf_constant |-> 23]

x264_param_apply_profile(param, profile) == [param EXCEPT !.profile = profile]

\* the handle x264_encoder_open returns: NULL when the engine rejects param
x264_encoder_open_ret(w, ok) == IF ok THEN Len(w.engines) + 1 ELSE NULL

x264_encoder_open(w, param, ok) ==
    IF ok
    THEN [w EXCEPT
            !.engines = Append(@, [kind |-> "x264", open |-> TRUE, closes |-> 0,
                                   i_csp |-> param.i_csp, param |-> param]),
            !.ev.created = @ \cup {<<"engine", Len(w.engines) + 1>>}]
    ELSE library_failure(w)

\* the memory of a closed engine holds nothing any more
x264_encoder_close(w, h) ==
    [w EXCEPT !.engines[h] = [kind |-> "x264", open |-> FALSE,
                              closes |-> w.engines[h].closes + 1,
                              i_csp |-> 0, param |-> <<>>],
              !.ev.released = @ \cup {<<"engine", h>>}]

\* x264_encoder_parameters: a copy of the engine's live parameter block
x264_encoder_parameters(w, h) == w.engines[h].param

\* x264_encoder_reconfig: the engine takes the block; the colour space it
\* was opened with cannot change on a live instance
x264_encoder_reconfig(w, h, param) ==
    [w EXCEPT !.engines[h].param = param,
              !.ev.reconfigs = @ + 1]

sws_getContext_ret(w, ok) == IF ok THEN Len(w.cscs) + 1 ELSE NULL

sws_getContext(w, srcFormat, dstFormat, flags, ok) ==
    IF ok
    THEN [w EXCEPT
            !.cscs = Append(@, [live |-> TRUE, frees |-> 0,
                                srcFormat |-> srcFormat, dstFormat |-> dstFormat,
                                flags |-> flags]),
            !.ev.created = @ \cup {<<"csc", Len(w.cscs) + 1>>}]
    ELSE library_failure(w)

sws_freeContext(w, h) ==
    [w EXCEPT !.cscs[h] = [live |-> FALSE, frees |-> w.cscs[h].frees + 1,
                           srcFormat |-> -1, dstFormat |-> -1, flags |-> ""],
              !.ev.released = @ \cup {<<"csc", h>>}]

PIX_FMT_RGB24 == 2

(***************************************************************************)
(* The encoder context.                                                    *)
(***************************************************************************)
\* memset(ctx, 0, sizeof(struct x264lib_ctx))
zeroed_ctx ==
    [csc_format |-> 0, codec |-> NULL, codec_ctx |-> NULL, yuv2rgb |-> NULL,
     encoder |-> NULL, rgb2yuv |-> NULL, quality |-> 0,
     supports_csc_option |-> FALSE, encoding_preset |-> 0, x264_quality |-> 0,
     colour_sampling |-> 0, profile |-> "", preset |-> "", csc_algo |-> ""]

get_encoder_pixel_format(c) == c.csc_format
get_encoder_quality(c) == c.quality

\* init_encoder_csc frees the converter the context holds, then builds one
\* for ctx->csc_format; the caller stores the handle returned
init_encoder_csc_free(w) ==
    IF w.ctx.rgb2yuv # NULL
    THEN [sws_freeContext(w, w.ctx.rgb2yuv) EXCEPT !.ctx.rgb2yuv = NULL]
    ELSE w

init_encoder_csc_ret(w, sws_ok) == sws_getContext_ret(init_encoder_csc_free(w), sws_ok)

\* init_encoder_csc building the converter for 4:2:0 whatever the context says
init_encoder_csc_fixed_420(w, sws_ok) ==
    sws_getContext(init_encoder_csc_free(w), PIX_FMT_RGB24, PIX_FMT_YUV420P,
                   w.ctx.csc_algo, sws_ok)

init_encoder_csc(w, sws_ok) ==
    sws_getContext(init_encoder_csc_free(w), PIX_FMT_RGB24, w.ctx.csc_format,
                   w.ctx.csc_algo, sws_ok)

do_init_encoder(w, initial_quality, supports_csc_option, x264_ok, sws_ok) ==
    LET c0 == [w.ctx EXCEPT !.quality = initial_quality,
                            !.supports_csc_option = supports_csc_option]
        c1 == [c0 EXCEPT !.colour_sampling = get_x264_colour_sampling(c0, initial_quality),
                         !.x264_quality = get_x264_quality(initial_quality)]
        c2 == [c1 EXCEPT !.csc_format = get_csc_format_for_x264_format(c1.colour_sampling),
                         !.encoding_preset = 2]
        c3 == [c2 EXCEPT !.preset = preset_name(c2.encoding_preset),
                         !.profile = get_profile_for_quality(initial_quality),
                         !.csc_algo = get_csc_algo_for_quality(initial_quality)]
        p0 == x264_param_default_preset(c3.preset, "zerolatency")
        p1 == [p0 EXCEPT !.i_csp = c3.colour_sampling,
                         !.f_rf_constant = c3.x264_quality]
        param == x264_param_apply_profile(p1, c3.profile)
        w1 == [w EXCEPT !.ctx = c3]
        w2 == [x264_encoder_open(w1, param, x264_ok)
                 EXCEPT !.ctx.encoder = x264_encoder_open_ret(w1, x264_ok)]
    IN  [init_encoder_csc(w2, sws_ok)
           EXCEPT !.ctx.rgb2yuv = init_encoder_csc_ret(w2, sws_ok)]

init_encoder(w, initial_quality, supports_csc_option, x264_ok, sws_ok) ==
    do_init_encoder([w EXCEPT !.ctx = zeroed_ctx], initial_quality,
                    supports_csc_option, x264_ok, sws_ok)

\* clean_encoder without the reset of the two pointers
clean_encoder_keeping_pointers(w) ==
    LET w1 == IF w.ctx.rgb2yuv # NULL
              THEN sws_freeContext(w, w.ctx.rgb2yuv)
              ELSE w
    IN  IF w1.ctx.encoder # NULL
        THEN x264_encoder_close(w1, w1.ctx.encoder)
        ELSE w1

clean_encoder(w) ==
    LET w1 == IF w.ctx.rgb2yuv # NULL
              THEN [sws_freeContext(w, w.ctx.rgb2yuv) EXCEPT !.ctx.rgb2yuv = NULL]
              ELSE w
    IN  IF w1.ctx.encoder # NULL
        THEN [x264_encoder_close(w1, w1.ctx.encoder) EXCEPT !.ctx.encoder = NULL]
        ELSE w1

\* a call that hands a NULL engine to libx264 dereferences it
null_deref(w) == [w EXCEPT !.fault = "null_deref"]

\* set_encoding_speed without the early return on an unchanged preset
set_encoding_speed_no_early_return(w, pct) ==
    IF w.ctx.encoder = NULL
    THEN null_deref(w)
    ELSE LET w1 == [w EXCEPT !.ctx.encoding_preset = new_preset_for_speed(pct)]
             p0 == x264_param_default_preset(
                       preset_name(w1.ctx.encoding_preset), "zerolatency")
             param == x264_param_apply_profile(p0, "baseline")
         IN  x264_encoder_reconfig(w1, w1.ctx.encoder, param)

set_encoding_speed(w, pct) ==
    IF w.ctx.encoder = NULL
    THEN null_deref(w)
    ELSE LET new_preset == new_preset_for_speed(pct)
         IN  IF new_preset = w.ctx.encoding_preset
             THEN w
             ELSE LET w1 == [w EXCEPT !.ctx.encoding_preset = new_preset]
                      p0 == x264_param_default_preset(
                                preset_name(w1.ctx.encoding_preset), "zerolatency")
                      param == x264_param_apply_profile(p0, "baseline")
                  IN  x264_encoder_reconfig(w1, w1.ctx.encoder, param)

\* the soft path without the store of the new percentage in ctx->quality
set_encoding_quality_soft_no_store(w, pct, sws_ok) ==
    IF clear_bit0(w.ctx.quality) # clear_bit0(pct)
    THEN IF w.ctx.encoder = NULL
         THEN null_deref(w)
         ELSE LET new_quality == get_x264_quality(pct)
                  p0 == x264_encoder_parameters(w, w.ctx.encoder)
                  w0 == [w EXCEPT !.ctx.x264_quality = new_quality]
                  param == [p0 EXCEPT !.f_rf_constant = new_quality]
              IN  x264_encoder_reconfig(w0, w0.ctx.encoder, param)
    ELSE w

\* the soft path storing the new percentage before the low-bit comparison
set_encoding_quality_soft_storing_first(w, pct, sws_ok) ==
    IF clear_bit0(w.ctx.quality) # clear_bit0(pct)
    THEN IF w.ctx.encoder = NULL
         THEN null_deref(w)
         ELSE LET new_quality == get_x264_quality(pct)
                  p0 == x264_encoder_parameters(w, w.ctx.encoder)
                  w0 == [w EXCEPT !.ctx.quality = pct,
                                  !.ctx.x264_quality = new_quality]
                  param == [p0 EXCEPT !.f_rf_constant = new_quality]
              IN  x264_encoder_reconfig(w0, w0.ctx.encoder, param)
    ELSE [w EXCEPT !.ctx.quality = pct]

\* the part of set_encoding_quality after the chroma check
set_encoding_quality_soft(w, pct, sws_ok) ==
    LET w1 == IF clear_bit0(w.ctx.quality) # clear_bit0(pct)
              THEN IF w.ctx.encoder = NULL
                   THEN null_deref(w)
                   ELSE LET new_quality == get_x264_quality(pct)
                            p0 == x264_encoder_parameters(w, w.ctx.encoder)
                            w0 == [w EXCEPT !.ctx.quality = pct,
                                            !.ctx.x264_quality = new_quality]
                            param == [p0 EXCEPT !.f_rf_constant = new_quality]
                        IN  x264_encoder_reconfig(w0, w0.ctx.encoder, param)
              ELSE w
        old_csc_algo == w1.ctx.csc_algo
        w2 == [w1 EXCEPT !.ctx.csc_algo = get_csc_algo_for_quality(pct)]
    IN  IF w1.fault # "none" THEN w1
        ELSE IF old_csc_algo # w2.ctx.csc_algo
             THEN [init_encoder_csc(w2, sws_ok)
                     EXCEPT !.ctx.rgb2yuv = init_encoder_csc_ret(w2, sws_ok)]
             ELSE w2

\* the chroma check of set_encoding_quality
pixel_encoding_changed(c, pct) ==
    c.supports_csc_option /\ c.colour_sampling # get_x264_colour_sampling(c, pct)

\* set_encoding_quality re-initialising on every call
set_encoding_quality_always_reinit(w, pct, x264_ok, sws_ok) ==
    do_init_encoder(clean_encoder(w), pct, w.ctx.supports_csc_option,
                    x264_ok, sws_ok)

\* set_encoding_quality without the chroma check
set_encoding_quality_never_reinit(w, pct, x264_ok, sws_ok) ==
    set_encoding_quality_soft(w, pct, sws_ok)

set_encoding_quality(w, pct, x264_ok, sws_ok) ==
    IF pixel_encoding_changed(w.ctx, pct)
    THEN do_init_encoder(clean_encoder(w), pct, w.ctx.supports_csc_option,
                         x264_ok, sws_ok)
    ELSE set_encoding_quality_soft(w, pct, sws_ok)

(***************************************************************************)
(* Encoding one frame.  pic is the x264_picture_t the caller holds:        *)
(* whether it is allocated and the parameter block attached to it.         *)
(***************************************************************************)
NoPic == [alloc |-> FALSE, param |-> NoParam]

csc_image_rgb2yuv(w) ==
    IF w.ctx.encoder = NULL \/ w.ctx.rgb2yuv = NULL
    THEN [w EXCEPT !.pic = NoPic, !.rc = NULL]
    ELSE [w EXCEPT !.pic = [alloc |-> TRUE, param |-> NoParam],
                   !.rc = 1]

\* x264_picture_clean and free: nothing of the image is left
free_csc_image(w) ==
    [w EXCEPT !.pic = NoPic, !.ev.pic_frees = @ + 1]

\* x264_encoder_encode: frame_size_ok tells whether the engine reports a
\* valid frame size
x264_encoder_encode(w, h) ==
    [w EXCEPT !.ev.invoked = @ + 1, !.ev.frame = w.pic.param]

\* compress_image without the free on the invalid frame size path
compress_image_leaking_on_error(w, quality_override, frame_size_ok, intact) ==
    IF w.ctx.encoder = NULL \/ w.ctx.rgb2yuv = NULL
    THEN [free_csc_image(w) EXCEPT !.rc = 1]
    ELSE LET w2 == x264_encoder_encode(w, w.ctx.encoder)
         IN  IF ~frame_size_ok
             THEN [w2 EXCEPT !.rc = 2]
             ELSE [free_csc_image(w2) EXCEPT !.rc = 0]

\* compress_image storing the override in the context
compress_image_persisting_override(w, quality_override, frame_size_ok, intact) ==
    IF w.ctx.encoder = NULL \/ w.ctx.rgb2yuv = NULL
    THEN [free_csc_image(w) EXCEPT !.rc = 1]
    ELSE LET new_q == get_x264_quality(quality_override)
             w1 == IF quality_override >= 0 /\ new_q # w.ctx.x264_quality
                   THEN [w EXCEPT !.pic.param =
                            [attached |-> TRUE, intact |-> intact,
                             f_rf_constant |-> new_q],
                                  !.ctx.x264_quality = new_q]
                   ELSE w
             w2 == x264_encoder_encode(w1, w1.ctx.encoder)
         IN  [free_csc_image(w2) EXCEPT !.rc = IF frame_size_ok THEN 0 ELSE 2]

\* pic_in->param = &param points at a block local to the inner scope, which
\* is dead when x264_encoder_encode reads it: intact tells whether the
\* engine still finds the block as written
compress_image(w, quality_override, frame_size_ok, intact) ==
    IF w.ctx.encoder = NULL \/ w.ctx.rgb2yuv = NULL
    THEN [free_csc_image(w) EXCEPT !.rc = 1]
    ELSE LET new_q == get_x264_quality(quality_override)
             w1 == IF quality_override >= 0 /\ new_q # w.ctx.x264_quality
                   THEN [w EXCEPT !.pic.param =
                            [attached |-> TRUE, intact |-> intact,
                             f_rf_constant |-> new_q]]
                   ELSE w
             w2 == x264_encoder_encode(w1, w1.ctx.encoder)
         IN  IF ~frame_size_ok
             THEN [free_csc_image(w2) EXCEPT !.rc = 2]
             ELSE [free_csc_image(w2) EXCEPT !.rc = 0]

(***************************************************************************)
(* The decoder context.                                                    *)
(***************************************************************************)
\* the AVCodec avcodec_find_decoder(CODEC_ID_H264) returns (a static object)
CODEC_H264 == 1

avcodec_alloc_context3_ret(w) == Len(w.engines) + 1

avcodec_alloc_context3(w) ==
    [w EXCEPT
        !.engines = Append(@, [kind |-> "avcodec", open |-> TRUE, closes |-> 0,
                               pix_fmt |-> -1, opened |-> FALSE]),
        !.ev.created = @ \cup {<<"engine", Len(w.engines) + 1>>}]

\* avcodec_close followed by av_free
avcodec_close_free(w, h) ==
    [w EXCEPT !.engines[h] = [kind |-> "avcodec", open |-> FALSE,
                              closes |-> w.engines[h].closes + 1,
                              pix_fmt |-> -1, opened |-> FALSE],
              !.ev.released = @ \cup {<<"engine", h>>}]

init_decoder_context(w, csc_fmt_in, sws_ok, find_ok, open_ok) ==
    LET csc_fmt == IF csc_fmt_in < 0 THEN PIX_FMT_YUV420P ELSE csc_fmt_in
        w0 == [w EXCEPT !.ctx.csc_format = csc_fmt,
                        !.ctx.csc_algo = get_csc_algo_for_quality(100)]
        w1 == [sws_getContext(w0, w0.ctx.csc_format, PIX_FMT_RGB24,
                              w0.ctx.csc_algo, sws_ok)
                 EXCEPT !.ctx.yuv2rgb = sws_getContext_ret(w0, sws_ok)]
        w2 == IF find_ok
              THEN [w1 EXCEPT !.ctx.codec = CODEC_H264]
              ELSE [library_failure(w1) EXCEPT !.ctx.codec = NULL]
        w3 == [avcodec_alloc_context3(w2)
                 EXCEPT !.ctx.codec_ctx = avcodec_alloc_context3_ret(w2)]
        w4 == [w3 EXCEPT !.engines[w3.ctx.codec_ctx].pix_fmt = csc_fmt]
    IN  IF w2.ctx.codec = NULL
        THEN [w2 EXCEPT !.rc = 1]
        ELSE IF ~open_ok
             THEN [library_failure(w4) EXCEPT !.rc = 1]
             ELSE [w4 EXCEPT !.engines[w4.ctx.codec_ctx].opened = TRUE, !.rc = 0]

clean_decoder(w) ==
    LET w1 == IF w.ctx.codec_ctx # NULL
              THEN [avcodec_close_free(w, w.ctx.codec_ctx)
                      EXCEPT !.ctx.codec_ctx = NULL]
              ELSE w
    IN  IF w1.ctx.yuv2rgb # NULL
        THEN [sws_freeContext(w1, w1.ctx.yuv2rgb) EXCEPT !.ctx.yuv2rgb = NULL]
        ELSE w1

\* set_decoder_csc_format re-initialising whatever the current format is
set_decoder_csc_format_always_rebuild(w, csc_fmt_in, sws_ok, find_ok, open_ok) ==
    LET csc_fmt == IF csc_fmt_in < 0 THEN PIX_FMT_YUV420P ELSE csc_fmt_in
    IN  [init_decoder_context(clean_decoder(w), csc_fmt, sws_ok, find_ok, open_ok)
           EXCEPT !.rc = 0]

set_decoder_csc_format(w, csc_fmt_in, sws_ok, find_ok, open_ok) ==
    LET csc_fmt == IF csc_fmt_in < 0 THEN PIX_FMT_YUV420P ELSE csc_fmt_in
    IN  IF w.ctx.csc_format # csc_fmt
        THEN [init_decoder_context(clean_decoder(w), csc_fmt, sws_ok, find_ok, open_ok)
                EXCEPT !.rc = 0]
        ELSE w

\* avcodec_decode_video2: len_ok tells whether it returns len >= 0, and
\* got_frame whether it filled the picture (linesize stays 0 otherwise)
avcodec_decode_video2(w, h) == [w EXCEPT !.ev.invoked = @ + 1]

decompress_image(w, outsize_in, len_ok, got_frame) ==
    IF w.ctx.codec_ctx = NULL \/ w.ctx.codec = NULL
    THEN [w EXCEPT !.rc = 1]
    ELSE LET w1 == avcodec_decode_video2(w, w.ctx.codec_ctx)
             outsize == outsize_in + (IF got_frame THEN 1 ELSE 0)
         IN  IF ~len_ok
             THEN [w1 EXCEPT !.rc = 2]
             ELSE IF outsize = 0
                  THEN [w1 EXCEPT !.rc = 3]
                  ELSE [w1 EXCEPT !.rc = 0]

csc_image_yuv2rgb(w) ==
    IF w.ctx.yuv2rgb = NULL THEN [w EXCEPT !.rc = 1] ELSE [w EXCEPT !.rc = 0]

(***************************************************************************)
(* The VP8 contexts of vpxlib.c.  A struct vpx_context embeds its codec    *)
(* (modelled as a handle into the engine heap) and holds one converter;    *)
(* init_encoder and init_decoder malloc it without clearing it, so the     *)
(* record has only the fields the function has written.  The functions     *)
(* return a context (rc = 1) or NULL.                                      *)
(***************************************************************************)
\* vpx_codec_enc_init / vpx_codec_dec_init on the codec embedded in ctx
vpx_codec_init_ret(w) == Len(w.engines) + 1

vpx_codec_init(w) ==
    [w EXCEPT
        !.engines = Append(@, [kind |-> "vpx", open |-> TRUE, closes |-> 0]),
        !.ev.created = @ \cup {<<"engine", Len(w.engines) + 1>>}]

vpx_codec_destroy(w, h) ==
    [w EXCEPT !.engines[h] = [kind |-> "vpx", open |-> FALSE,
                              closes |-> w.engines[h].closes + 1],
              !.ev.released = @ \cup {<<"engine", h>>}]

\* vpxlib.c init_encoder: cfg_ok is vpx_codec_enc_config_default succeeding,
\* init_ok vpx_codec_enc_init succeeding
vpx_init_encoder(w, cfg_ok, init_ok, sws_ok) ==
    IF ~cfg_ok
    THEN [library_failure(w) EXCEPT !.rc = NULL]
    ELSE IF ~init_ok
         THEN [library_failure(w) EXCEPT !.rc = NULL]
         ELSE LET w1 == [vpx_codec_init(w) EXCEPT !.ctx = [codec |-> vpx_codec_init_ret(w)]]
                  w2 == sws_getContext(w1, PIX_FMT_RGB24, PIX_FMT_YUV420P,
                                       "SWS_FAST_BILINEAR", sws_ok)
              IN  [w2 EXCEPT !.ctx = [codec |-> w1.ctx.codec,
                                      rgb2yuv |-> sws_getContext_ret(w1, sws_ok)],
                             !.rc = 1]

\* vpxlib.c clean_encoder: vpx_codec_destroy and free(ctx); the caller's
\* pointer dangles afterwards
vpx_clean_encoder(w) == vpx_codec_destroy(w, w.ctx.codec)

\* vpxlib.c init_decoder
vpx_init_decoder(w, init_ok, sws_ok) ==
    IF ~init_ok
    THEN [library_failure(w) EXCEPT !.rc = NULL]
    ELSE LET w1 == [vpx_codec_init(w) EXCEPT !.ctx = [codec |-> vpx_codec_init_ret(w)]]
             w2 == sws_getContext(w1, PIX_FMT_YUV420P, PIX_FMT_RGB24,
                                  "SWS_FAST_BILINEAR", sws_ok)
         IN  [w2 EXCEPT !.ctx = [codec |-> w1.ctx.codec,
                                 yuv2rgb |-> sws_getContext_ret(w1, sws_ok)],
                        !.rc = 1]

\* vpxlib.c clean_decoder
vpx_clean_decoder(w) == vpx_codec_destroy(w, w.ctx.codec)

\* vpx_codec_decode
vpx_codec_decode(w, h) == [w EXCEPT !.ev.invoked = @ + 1]

\* vpxlib.c decompress_image: decode_ok tells whether vpx_codec_decode
\* returns 0, got_frame whether vpx_codec_get_frame returns an image
vpx_decompress_image(w, decode_ok, got_frame) ==
    LET w1 == vpx_codec_decode(w, w.ctx.codec)
    IN  IF ~decode_ok
        THEN [w1 EXCEPT !.rc = -1]
        ELSE IF ~got_frame
             THEN [w1 EXCEPT !.rc = -1]
             ELSE [w1 EXCEPT !.rc = 0]

(***************************************************************************)
(* The state machine.  role tells what the caller holds: nothing yet, an   *)
(* encoder context, a decoder context, the NULL a failed open returned, a  *)
(* VP8 encoder or decoder context, or a pointer to a context that has been *)
(* freed.                                                                  *)
(* last records the latest call: its name, its argument, the value it      *)
(* returned, the library events it caused, and whether the call before it  *)
(* was the same call ("no", or what that call did to the libraries).       *)
(* closed tells whether the context has been closed (clean_encoder or      *)
(* clean_decoder called on it).                                            *)
(***************************************************************************)
BranchPoints == {0, 50, I422_MIN_QUALITY, I444_MIN_QUALITY, 100}

Pcts ==
    {p \in 0..100 : \E t \in BranchPoints : p - t <= PctRadius /\ t - p <= PctRadius}

\* a negative override means none
QualityOverrides == {-1} \cup BranchPoints

\* speed percentages: both ends, the middle, and 60, which maps to the
\* preset index do_init_encoder starts with
SpeedPcts == {0, 50, 60, 100}

\* the formats a caller asks a decoder for: unspecified (-1), the three
\* planar YUV formats, and PIX_FMT_RGB24, which names no chroma format
CscFormats == {-1, PIX_FMT_YUV420P, PIX_FMT_YUV422P, PIX_FMT_YUV444P, PIX_FMT_RGB24}

PolicyPcts == (0 - PctMargin)..(100 + PctMargin)

NotDerived == [fn |-> "none", value |-> 0]

NoCall == [op |-> "none", arg |-> 0, rc |-> 0, ev |-> NoEvents, repeats |-> "no"]

\* the calls that close a context
CloseCalls ==
    {"clean_encoder", "clean_decoder", "vpx_clean_encoder", "vpx_clean_decoder"}

\* a call that released, created or reconfigured a library object
Reconfigured(ev) == ev.released # {} \/ ev.created # {} \/ ev.reconfigs # 0

World ==
    [ctx |-> ctx, engines |-> engines, cscs |-> cscs, pic |-> pic,
     fault |-> fault, rc |-> 0, ev |-> NoEvents]

WithinBounds(w) ==
    /\ Len(w.engines) <= MaxHandles
    /\ Len(w.cscs) <= MaxHandles
    /\ failures + w.ev.failed <= MaxFailures

Commit(world, op, arg) ==
  \E w \in {world} :
    /\ WithinBounds(w)
    /\ ctx' = w.ctx
    /\ engines' = w.engines
    /\ cscs' = w.cscs
    /\ pic' = w.pic
    /\ fault' = w.fault
    /\ failures' = failures + w.ev.failed
    /\ last' = [op |-> op, arg |-> arg, rc |-> w.rc, ev |-> w.ev,
                 repeats |-> IF last.op # op \/ last.arg # arg THEN "no"
                             ELSE IF Reconfigured(last.ev) THEN "reconfiguration"
                             ELSE "no-op"]
    /\ closed' = (closed \/ op \in CloseCalls)
    /\ UNCHANGED <<arg_pct, arg_csc, derived>>

\* the outcomes the environment may give a library call, when the call is
\* made at all: failure only while fewer than MaxFailures calls have failed
Outcomes(called) ==
    IF called /\ failures < MaxFailures THEN BOOLEAN ELSE {TRUE}

Init ==
    /\ role = "none"
    /\ ctx = zeroed_ctx
    /\ engines = <<>>
    /\ cscs = <<>>
    /\ pic = NoPic
    /\ fault = "none"
    /\ failures = 0
    /\ last = NoCall
    /\ arg_pct = 0
    /\ arg_csc = FALSE
    /\ derived = NotDerived
    /\ closed = FALSE

InitEncoder ==
    /\ role = "none"
    /\ \E q \in Pcts, s \in BOOLEAN, x264_ok \in BOOLEAN, sws_ok \in BOOLEAN :
          Commit(init_encoder(World, q, s, x264_ok, sws_ok), "init_encoder", q)
    /\ role' = "encoder"

CleanEncoder ==
    /\ role = "encoder" /\ fault = "none"
    /\ Commit(clean_encoder(World), "clean_encoder", 0)
    /\ UNCHANGED role

SetEncodingQuality ==
    /\ role = "encoder" /\ fault = "none"
    /\ \E pct \in Pcts :
       \E x264_ok \in Outcomes(pixel_encoding_changed(ctx, pct)),
          sws_ok \in Outcomes(pixel_encoding_changed(ctx, pct)) :
          Commit(set_encoding_quality(World, pct, x264_ok, sws_ok),
                 "set_encoding_quality", pct)
    /\ UNCHANGED role

SetEncodingSpeed ==
    /\ role = "encoder" /\ fault = "none"
    /\ \E pct \in SpeedPcts :
          Commit(set_encoding_speed(World, pct), "set_encoding_speed", pct)
    /\ UNCHANGED role

\* the caller converts a frame when it holds no image
CscImageRgb2yuv ==
    /\ role = "encoder" /\ fault = "none"
    /\ ~pic.alloc
    /\ Commit(csc_image_rgb2yuv(World), "csc_image_rgb2yuv", 0)
    /\ UNCHANGED role

\* the caller passes the image csc_image_rgb2yuv gave it
CompressImage ==
    /\ role = "encoder" /\ fault = "none"
    /\ pic.alloc
    /\ \E qo \in QualityOverrides, frame_size_ok \in BOOLEAN,
          intact \in BOOLEAN :
          Commit(compress_image(World, qo, frame_size_ok, intact),
                 "compress_image", qo)
    /\ UNCHANGED role

InitDecoder ==
    /\ role = "none"
    /\ \E f \in CscFormats, sws_ok \in BOOLEAN, find_ok \in BOOLEAN, open_ok \in BOOLEAN :
          LET w == init_decoder_context([World EXCEPT !.ctx = zeroed_ctx],
                                        f, sws_ok, find_ok, open_ok)
          IN  /\ Commit(w, "init_decoder", f)
              /\ role' = IF w.rc # 0 THEN "failed" ELSE "decoder"

CleanDecoder ==
    /\ role = "decoder"
    /\ Commit(clean_decoder(World), "clean_decoder", 0)
    /\ UNCHANGED role

SetDecoderCscFormat ==
    /\ role = "decoder"
    /\ \E f \in CscFormats, sws_ok \in BOOLEAN, find_ok \in BOOLEAN, open_ok \in BOOLEAN :
          Commit(set_decoder_csc_format(World, f, sws_ok, find_ok, open_ok),
                 "set_decoder_csc_format", f)
    /\ UNCHANGED role

DecompressImage ==
    /\ role = "decoder"
    /\ \E len_ok \in BOOLEAN, got_frame \in BOOLEAN :
          Commit(decompress_image(World, 0, len_ok, got_frame), "decompress_image", 0)
    /\ UNCHANGED role

CscImageYuv2rgb ==
    /\ role = "decoder"
    /\ Commit(csc_image_yuv2rgb(World), "csc_image_yuv2rgb", 0)
    /\ UNCHANGED role

VpxInitEncoder ==
    /\ role = "none"
    /\ \E cfg_ok \in BOOLEAN, init_ok \in BOOLEAN, sws_ok \in BOOLEAN :
          LET w == vpx_init_encoder(World, cfg_ok, init_ok, sws_ok)
          IN  /\ Commit(w, "vpx_init_encoder", 0)
              /\ role' = IF w.rc = NULL THEN "failed" ELSE "vpx_encoder"

VpxCleanEncoder ==
    /\ role = "vpx_encoder"
    /\ Commit(vpx_clean_encoder(World), "vpx_clean_encoder", 0)
    /\ role' = "freed"

VpxInitDecoder ==
    /\ role = "none"
    /\ \E init_ok \in BOOLEAN, sws_ok \in BOOLEAN :
          LET w == vpx_init_decoder(World, init_ok, sws_ok)
          IN  /\ Commit(w, "vpx_init_decoder", 0)
              /\ role' = IF w.rc = NULL THEN "failed" ELSE "vpx_decoder"

VpxCleanDecoder ==
    /\ role = "vpx_decoder"
    /\ Commit(vpx_clean_decoder(World), "vpx_clean_decoder", 0)
    /\ role' = "freed"

VpxDecompressImage ==
    /\ role = "vpx_decoder"
    /\ \E decode_ok \in BOOLEAN, got_frame \in BOOLEAN :
          Commit(vpx_decompress_image(World, decode_ok, got_frame),
                 "vpx_decompress_image", 0)
    /\ UNCHANGED role

Next ==
    \/ InitEncoder
    \/ CleanEncoder
    \/ SetEncodingQuality
    \/ SetEncodingSpeed
    \/ CscImageRgb2yuv
    \/ CompressImage
    \/ InitDecoder
    \/ CleanDecoder
    \/ SetDecoderCscFormat
    \/ DecompressImage
    \/ CscImageYuv2rgb
    \/ VpxInitEncoder
    \/ VpxCleanEncoder
    \/ VpxInitDecoder
    \/ VpxCleanDecoder
    \/ VpxDecompressImage

Spec == Init /\ [][Next]_vars

(***************************************************************************)
(* The policy functions on their own: the inputs are drawn in the initial  *)
(* state and each action applies one function to them.                     *)
(***************************************************************************)
PolicyInit ==
    /\ role = "none"
    /\ ctx = zeroed_ctx
    /\ engines = <<>>
    /\ cscs = <<>>
    /\ pic = NoPic
    /\ fault = "none"
    /\ failures = 0
    /\ last = NoCall
    /\ arg_pct \in PolicyPcts
    /\ arg_csc \in BOOLEAN
    /\ derived = NotDerived
    /\ closed = FALSE

Derive(fn, value) ==
    /\ derived' = [fn |-> fn, value |-> value]
    /\ UNCHANGED <<role, ctx, engines, cscs, pic, fault, failures, last, arg_pct, arg_csc,
                   closed>>

ApplyQuality == Derive("get_x264_quality", get_x264_quality(arg_pct))

ApplyColourSampling ==
    Derive("get_x264_colour_sampling",
           get_x264_colour_sampling([zeroed_ctx EXCEPT !.supports_csc_option = arg_csc],
                                    arg_pct))

ApplyProfile == Derive("get_profile_for_quality", get_profile_for_quality(arg_pct))

ApplySpeed == Derive("new_preset", new_preset_for_speed(arg_pct))

PolicyNext == ApplyQuality \/ ApplyColourSampling \/ ApplyProfile \/ ApplySpeed

PolicySpec == PolicyInit /\ [][PolicyNext]_vars

(***************************************************************************)
(* The properties.                                                         *)
(***************************************************************************)
\* the chroma format an x264 colour space constant stands for
ChromaOfCsp(i_csp) ==
    CASE i_csp = X264_CSP_I420 -> "4:2:0"
      [] i_csp = X264_CSP_I422 -> "4:2:2"
      [] i_csp = X264_CSP_I444 -> "4:4:4"
      [] OTHER -> "invalid"

\* the chroma format a libav pixel format constant stands for
ChromaOfPixFmt(fmt) ==
    CASE fmt = PIX_FMT_YUV420P -> "4:2:0"
      [] fmt = PIX_FMT_YUV422P -> "4:2:2"
      [] fmt = PIX_FMT_YUV444P -> "4:4:4"
      [] OTHER -> "invalid"

Fidelity(chroma) ==
    CASE chroma = "4:2:0" -> 0
      [] chroma = "4:2:2" -> 1
      [] chroma = "4:4:4" -> 2
      [] OTHER -> -1

SamplingFor(flag, pct) ==
    get_x264_colour_sampling([zeroed_ctx EXCEPT !.supports_csc_option = flag], pct)

\* C1: with chroma switching enabled the format derived from a quality in
\* 0..100 is 4:2:0 below 80, 4:2:2 from 80 to 89 and 4:4:4 from 90, and a
\* higher quality never derives a lower fidelity; with switching disabled
\* the format is 4:2:0 for every quality.
C1_ChromaByQuality ==
    derived.fn = "get_x264_colour_sampling" =>
        /\ (arg_csc /\ arg_pct \in 0..100) =>
              ChromaOfCsp(derived.value) =
                 (IF arg_pct < 80 THEN "4:2:0"
                  ELSE IF arg_pct < 90 THEN "4:2:2" ELSE "4:4:4")
        /\ arg_csc =>
              \A p2 \in PolicyPcts :
                 arg_pct < p2 =>
                    Fidelity(ChromaOfCsp(derived.value))
                       <= Fidelity(ChromaOfCsp(SamplingFor(arg_csc, p2)))
        /\ ~arg_csc => ChromaOfCsp(derived.value) = "4:2:0"

C1_Witness ==
    /\ derived.fn = "get_x264_colour_sampling"
    /\ arg_csc
    /\ arg_pct = 80
    /\ ChromaOfCsp(derived.value) = "4:2:2"

\* C2: the quantizer derived from any integer pct is the integer nearest to
\* 50 - clamp(pct, 0, 100) * 49 / 100 (the one away from zero on a tie),
\* lies in 1..50, is 50 at pct = 0 and 1 at pct = 100, and is never greater
\* for a greater pct.
C2_Quantizer ==
    derived.fn = "get_x264_quality" =>
        LET clamped == IF arg_pct < 0 THEN 0 ELSE IF arg_pct > 100 THEN 100 ELSE arg_pct
            hundredths == 5000 - 49 * clamped
            q == derived.value
        IN  /\ q \in 1..50
            /\ 100 * q - hundredths <= 50
            /\ hundredths - 100 * q < 50
            /\ arg_pct = 0 => q = 50
            /\ arg_pct = 100 => q = 1
            /\ \A p2 \in PolicyPcts : arg_pct < p2 => get_x264_quality(p2) <= q

C2_Witness ==
    /\ derived.fn = "get_x264_quality"
    /\ arg_pct = 50
    /\ derived.value = 26

\* the least integer k with k * d >= n (d > 0, n >= 0)
CeilDiv(n, d) == (n + d - 1) \div d

Clamp(x, lo, hi) == IF x < lo THEN lo ELSE IF x > hi THEN hi ELSE x

\* C9 as stated: for pct in 0..100 the preset index is
\* 7 - clamp(round(pct / 12.5), 0, 7).
C9_Original ==
    (derived.fn = "new_preset" /\ arg_pct \in 0..100) =>
        derived.value = 7 - Clamp(roundf(2 * arg_pct, 25), 0, 7)

\* C9, amended: for pct in 0..100 the preset index is
\* 7 - clamp(ceil(pct / 12.5), 0, 7), pct / 12.5 being rounded up, never
\* down; it is 0 at pct = 100 and 7 at pct = 0, and for every integer pct
\* it lies in 0..7.
C9_PresetIndex ==
    derived.fn = "new_preset" =>
        /\ arg_pct \in 0..100 =>
              derived.value = 7 - Clamp(CeilDiv(2 * arg_pct, 25), 0, 7)
        /\ arg_pct = 100 => derived.value = 0
        /\ arg_pct = 0 => derived.value = 7
        /\ derived.value \in 0..7

C9_Witness ==
    /\ derived.fn = "new_preset"
    /\ arg_pct = 5
    /\ derived.value = 6

\* the test compress_image and csc_image_rgb2yuv make before they work
Ready(c) == c.encoder # NULL /\ c.rgb2yuv # NULL

\* a set_encoding_quality call on a Ready encoder: the step's call is named
\* by last', its argument is last'.arg
SetQualityOnReady ==
    /\ last'.op = "set_encoding_quality"
    /\ role = "encoder" /\ fault = "none"
    /\ Ready(ctx)

ChromaKept ==
    ChromaOfCsp(SamplingFor(ctx.supports_csc_option, last'.arg))
       = ChromaOfCsp(ctx.colour_sampling)

\* C3 as stated: a setQuality(pct) on a Ready encoder that does not change
\* the chroma format keeps the engine and the converter, and the engine's
\* quantizer, the stored quantizer and the stored quality become the values
\* derived from pct.
C3_Original ==
    [][(SetQualityOnReady /\ ChromaKept) =>
          /\ ctx'.encoder = ctx.encoder
          /\ ctx'.rgb2yuv = ctx.rgb2yuv
          /\ ctx'.quality = last'.arg
          /\ ctx'.x264_quality = get_x264_quality(last'.arg)
          /\ engines'[ctx'.encoder].param.f_rf_constant = get_x264_quality(last'.arg)
      ]_vars

\* C3, amended: a setQuality(pct) on a Ready encoder that does not change
\* the chroma format keeps the engine and the converter (nothing is released
\* or created); if pct and the stored quality differ in more than their
\* lowest bit, the engine's quantizer, the stored quantizer and the stored
\* quality become the values derived from pct, and otherwise the call
\* changes nothing (open at 50 then setQuality(51) leaves quality 50 and its
\* quantizer; setQuality(52) changes them).
C3_SoftReconfiguration ==
    [][(SetQualityOnReady /\ ChromaKept) =>
          /\ ctx'.encoder = ctx.encoder
          /\ ctx'.rgb2yuv = ctx.rgb2yuv
          /\ engines'[ctx.encoder].open
          /\ cscs'[ctx.rgb2yuv].live
          /\ last'.ev.released = {} /\ last'.ev.created = {}
          /\ IF ctx.quality \div 2 # last'.arg \div 2
             THEN /\ ctx'.quality = last'.arg
                  /\ ctx'.x264_quality = get_x264_quality(last'.arg)
                  /\ engines'[ctx'.encoder].param.f_rf_constant
                        = get_x264_quality(last'.arg)
                  /\ last'.ev.reconfigs = 1
             ELSE /\ ctx' = ctx
                  /\ engines' = engines
                  /\ last'.ev.reconfigs = 0
      ]_vars

C3_Witness ==
    /\ role = "encoder" /\ fault = "none" /\ Ready(ctx)
    /\ last.op = "set_encoding_quality"
    /\ last.arg = 49
    /\ last.ev.reconfigs = 1 /\ last.ev.released = {} /\ last.ev.created = {}
    /\ ctx.quality = 49
    /\ engines[ctx.encoder].param.f_rf_constant = get_x264_quality(49)

\* the world a call would start from in the state a step ends in, the
\* caller holding a freshly converted image
WorldAfter ==
    [ctx |-> ctx', engines |-> engines', cscs |-> cscs',
     pic |-> [alloc |-> TRUE, param |-> NoParam],
     fault |-> fault', rc |-> 0, ev |-> NoEvents]

\* C4: a setQuality(pct) on a Ready encoder with chroma switching enabled
\* that derives another chroma format closes the old engine and converter,
\* leaves the context holding another engine instance, and sets the chroma
\* format, the profile, the quantizer and the stored quality to the values
\* derived from pct; when libx264 and libswscale build the new objects, the
\* new engine and converter are open with that format, profile and
\* quantizer, and a following encodeFrame is accepted.
C4_HardReconfiguration ==
    [][(SetQualityOnReady /\ ctx.supports_csc_option /\ ~ChromaKept) =>
          LET pct == last'.arg
              csp == SamplingFor(TRUE, pct)
          IN  /\ ~engines'[ctx.encoder].open
              /\ ~cscs'[ctx.rgb2yuv].live
              /\ last'.ev.released = {<<"engine", ctx.encoder>>, <<"csc", ctx.rgb2yuv>>}
              /\ ctx'.encoder # ctx.encoder
              /\ ctx'.rgb2yuv # ctx.rgb2yuv
              /\ ctx'.colour_sampling = csp
              /\ ChromaOfPixFmt(ctx'.csc_format) = ChromaOfCsp(csp)
              /\ ctx'.profile = get_profile_for_quality(pct)
              /\ ctx'.x264_quality = get_x264_quality(pct)
              /\ ctx'.quality = pct
              /\ last'.ev.failed = 0 =>
                    /\ Ready(ctx')
                    /\ last'.ev.created = {<<"engine", ctx'.encoder>>, <<"csc", ctx'.rgb2yuv>>}
                    /\ engines'[ctx'.encoder].open
                    /\ engines'[ctx'.encoder].i_csp = csp
                    /\ engines'[ctx'.encoder].param.profile = get_profile_for_quality(pct)
                    /\ engines'[ctx'.encoder].param.f_rf_constant = get_x264_quality(pct)
                    /\ cscs'[ctx'.rgb2yuv].live
                    /\ ChromaOfPixFmt(cscs'[ctx'.rgb2yuv].dstFormat) = ChromaOfCsp(csp)
                    /\ \A qo \in QualityOverrides, intact \in BOOLEAN :
                          compress_image(WorldAfter, qo, TRUE, intact).rc = 0
      ]_vars

C4_Witness ==
    /\ role = "encoder" /\ fault = "none" /\ Ready(ctx)
    /\ last.op = "set_encoding_quality"
    /\ last.arg = 90
    /\ last.ev.released # {} /\ last.ev.created # {}
    /\ ChromaOfPixFmt(ctx.csc_format) = "4:4:4"
    /\ engines[ctx.encoder].i_csp = X264_CSP_I444
    /\ ctx.profile = PROFILE_HIGH444_PREDICTIVE

\* C5: a setQuality(pct) that follows a setQuality with the same pct releases
\* and creates nothing, issues no engine reconfigure and changes no field of
\* the context.
C5_Idempotence ==
    [][(last'.op = "set_encoding_quality" /\ last'.repeats # "no" /\ role = "encoder") =>
          /\ ctx' = ctx
          /\ engines' = engines
          /\ cscs' = cscs
          /\ fault' = fault
          /\ last'.ev.released = {} /\ last'.ev.created = {}
          /\ last'.ev.reconfigs = 0
      ]_vars

C5_Witness ==
    /\ role = "encoder" /\ fault = "none" /\ Ready(ctx)
    /\ last.op = "set_encoding_quality"
    /\ last.repeats = "reconfiguration"
    /\ ~Reconfigured(last.ev)

\* C6: the chroma format the live engine was opened with and the pixel
\* format the live converter was built with equal the context's current
\* chroma-sampling format, for an encoder and for a decoder.
C6_FormatAgreement ==
    /\ (role = "encoder" /\ ctx.encoder # NULL) =>
          /\ engines[ctx.encoder].open
          /\ engines[ctx.encoder].i_csp = ctx.colour_sampling
          /\ ChromaOfCsp(engines[ctx.encoder].i_csp)
                = ChromaOfPixFmt(get_encoder_pixel_format(ctx))
    /\ (role = "encoder" /\ ctx.rgb2yuv # NULL) =>
          /\ cscs[ctx.rgb2yuv].live
          /\ cscs[ctx.rgb2yuv].dstFormat = get_encoder_pixel_format(ctx)
          /\ ChromaOfPixFmt(cscs[ctx.rgb2yuv].dstFormat) = ChromaOfCsp(ctx.colour_sampling)
    /\ (role = "decoder" /\ ctx.codec_ctx # NULL) =>
          /\ engines[ctx.codec_ctx].open
          /\ engines[ctx.codec_ctx].pix_fmt = ctx.csc_format
    /\ (role = "decoder" /\ ctx.yuv2rgb # NULL) =>
          /\ cscs[ctx.yuv2rgb].live
          /\ cscs[ctx.yuv2rgb].srcFormat = ctx.csc_format

C6_Witness ==
    /\ role = "encoder" /\ fault = "none" /\ Ready(ctx)
    /\ last.op = "set_encoding_speed"
    /\ last.ev.reconfigs = 1
    /\ Len(engines) = 2
    /\ ChromaOfPixFmt(cscs[ctx.rgb2yuv].dstFormat) = "4:2:2"

\* C7: when compress_image returns, on each of its return paths, the image
\* it was given has been freed exactly once.
C7_ImageReleasedOnce ==
    last.op = "compress_image" =>
        /\ last.rc \in {0, 1, 2}
        /\ last.ev.pic_frees = 1
        /\ ~pic.alloc

C7_Witness ==
    /\ last.op = "compress_image"
    /\ last.rc = 2
    /\ last.ev.pic_frees = 1

\* C8: compress_image leaves the stored quality, the stored quantizer, the
\* chroma format, the profile, the preset index, the engine and converter
\* handles and the objects behind them as they were, whatever the override
\* and the result; a parameter block is attached to the frame only for an
\* override >= 0 whose quantizer differs from the stored one, and it carries
\* the quantizer derived from the override.
C8_EncodeKeepsState ==
    [][(last'.op = "compress_image" /\ role = "encoder") =>
          /\ ctx'.quality = ctx.quality
          /\ ctx'.x264_quality = ctx.x264_quality
          /\ ctx'.colour_sampling = ctx.colour_sampling
          /\ ctx'.csc_format = ctx.csc_format
          /\ ctx'.profile = ctx.profile
          /\ ctx'.encoding_preset = ctx.encoding_preset
          /\ ctx'.encoder = ctx.encoder
          /\ ctx'.rgb2yuv = ctx.rgb2yuv
          /\ engines' = engines
          /\ cscs' = cscs
          /\ last'.arg < 0 => ~last'.ev.frame.attached
          /\ last'.ev.frame.attached =>
                /\ last'.arg >= 0
                /\ last'.ev.frame.f_rf_constant = get_x264_quality(last'.arg)
                /\ last'.ev.frame.f_rf_constant # ctx.x264_quality
      ]_vars

C8_Witness ==
    /\ role = "encoder" /\ fault = "none" /\ Ready(ctx)
    /\ last.op = "compress_image"
    /\ last.rc = 0
    /\ last.arg = 100
    /\ last.ev.frame.attached
    /\ last.ev.frame.f_rf_constant = 1
    /\ ctx.x264_quality = 26

\* C10: set_encoding_speed on a Ready encoder changes nothing and issues no
\* reconfigure when the preset index derived from pct is the current one;
\* otherwise it reconfigures the same engine once, releases and creates
\* nothing, and changes no field of the context but the preset index.
C10_SpeedReconfiguration ==
    [][(last'.op = "set_encoding_speed" /\ role = "encoder" /\ fault = "none"
        /\ Ready(ctx)) =>
          IF new_preset_for_speed(last'.arg) = ctx.encoding_preset
          THEN /\ ctx' = ctx
               /\ engines' = engines
               /\ cscs' = cscs
               /\ ~Reconfigured(last'.ev)
          ELSE /\ ctx' = [ctx EXCEPT !.encoding_preset = new_preset_for_speed(last'.arg)]
               /\ engines'[ctx.encoder].open
               /\ engines'[ctx.encoder].i_csp = engines[ctx.encoder].i_csp
               /\ cscs' = cscs
               /\ last'.ev.released = {} /\ last'.ev.created = {}
               /\ last'.ev.reconfigs = 1
      ]_vars

C10_Witness ==
    /\ role = "encoder" /\ fault = "none" /\ Ready(ctx)
    /\ last.op = "set_encoding_speed"
    /\ last.arg = 0
    /\ last.ev.reconfigs = 1
    /\ ctx.encoding_preset = 7
    /\ ctx.quality = 90 /\ ctx.colour_sampling = X264_CSP_I444

\* the objects a decoder context holds
DecoderObjects(c) ==
    (IF c.codec_ctx # NULL THEN {<<"engine", c.codec_ctx>>} ELSE {})
       \cup (IF c.yuv2rgb # NULL THEN {<<"csc", c.yuv2rgb>>} ELSE {})

\* what a decoder does with a requested format, Normalized(f) being the
\* format the request f stands for: open stores it; setChromaFormat changes
\* nothing when it is the current format, and otherwise releases the engine
\* and the converter the context holds, stores it, and (when the libraries
\* build the new objects) leaves a new engine and a new converter for it
DecoderFormatHandling(Normalized(_)) ==
       /\ (last'.op = "init_decoder" /\ role' = "decoder") =>
             ctx'.csc_format = Normalized(last'.arg)
       /\ (last'.op = "set_decoder_csc_format" /\ role = "decoder") =>
             IF Normalized(last'.arg) = ctx.csc_format
             THEN /\ ctx' = ctx
                  /\ engines' = engines
                  /\ cscs' = cscs
                  /\ ~Reconfigured(last'.ev)
             ELSE /\ last'.ev.released = DecoderObjects(ctx)
                  /\ \A o \in DecoderObjects(ctx) :
                        IF o[1] = "engine" THEN ~engines'[o[2]].open
                        ELSE ~cscs'[o[2]].live
                  /\ ctx'.csc_format = Normalized(last'.arg)
                  /\ last'.ev.failed = 0 =>
                        /\ last'.ev.created = DecoderObjects(ctx')
                        /\ ctx'.codec_ctx # NULL /\ ctx'.yuv2rgb # NULL
                        /\ DecoderObjects(ctx') \cap DecoderObjects(ctx) = {}
                        /\ engines'[ctx'.codec_ctx].opened
                        /\ engines'[ctx'.codec_ctx].pix_fmt = Normalized(last'.arg)
                        /\ cscs'[ctx'.yuv2rgb].srcFormat = Normalized(last'.arg)

\* a request that names none of the three chroma formats stands for 4:2:0
ValidOr420(f) ==
    IF f \in {PIX_FMT_YUV420P, PIX_FMT_YUV422P, PIX_FMT_YUV444P}
    THEN f ELSE PIX_FMT_YUV420P

\* a negative request stands for 4:2:0, any other for itself
NonNegativeOr420(f) == IF f < 0 THEN PIX_FMT_YUV420P ELSE f

\* C11 as stated: on open and on setChromaFormat an invalid or unspecified
\* chroma format is treated as 4:2:0; setChromaFormat is a no-op when the
\* normalized format is the current one and otherwise closes and rebuilds
\* the decode engine and the converter, the context format becoming the
\* normalized format.
C11_Original == [][DecoderFormatHandling(ValidOr420)]_vars

\* C11, amended: on open and on setChromaFormat a negative chroma format is
\* treated as 4:2:0 and any other value is taken as given, valid or not;
\* setChromaFormat is a no-op when the normalized format is the current one
\* and otherwise closes the decode engine and the converter and rebuilds
\* both, the context format becoming the normalized format.
C11_DecoderChromaFormat == [][DecoderFormatHandling(NonNegativeOr420)]_vars

C11_Witness ==
    /\ role = "decoder"
    /\ last.op = "set_decoder_csc_format"
    /\ last.arg = -1
    /\ last.ev.released # {} /\ last.ev.created # {}
    /\ ctx.csc_format = PIX_FMT_YUV420P
    /\ engines[ctx.codec_ctx].opened
    /\ cscs[ctx.yuv2rgb].srcFormat = PIX_FMT_YUV420P

\* the values decompress_image of x264lib.c returns in the current state,
\* by what the engine does with the packet
H264DecodeResults(len_ok, got_frame) ==
    decompress_image(World, 0, len_ok, got_frame).rc

\* the value it returns on a context that holds no engine
H264NotReadyResult ==
    decompress_image([World EXCEPT !.ctx.codec_ctx = NULL], 0, TRUE, TRUE).rc

\* C12: a decodeFrame call on which the engine reports a decoding error and
\* one on which it returns no frame produce different result values, and
\* both differ from the success value and from the context-not-ready value
\* (vpxlib.c's decompress_image has no not-ready result).
C12_DecodeResultClasses ==
    /\ (role = "decoder" /\ ctx.codec_ctx # NULL /\ ctx.codec # NULL) =>
          \A g \in BOOLEAN :
             /\ H264DecodeResults(FALSE, g) # H264DecodeResults(TRUE, FALSE)
             /\ H264DecodeResults(FALSE, g) # H264DecodeResults(TRUE, TRUE)
             /\ H264DecodeResults(TRUE, FALSE) # H264DecodeResults(TRUE, TRUE)
             /\ H264DecodeResults(FALSE, g) # H264NotReadyResult
             /\ H264DecodeResults(TRUE, FALSE) # H264NotReadyResult
    /\ role = "vpx_decoder" =>
          \A g \in BOOLEAN :
             /\ vpx_decompress_image(World, FALSE, g).rc
                   # vpx_decompress_image(World, TRUE, FALSE).rc
             /\ vpx_decompress_image(World, FALSE, g).rc
                   # vpx_decompress_image(World, TRUE, TRUE).rc
             /\ vpx_decompress_image(World, TRUE, FALSE).rc
                   # vpx_decompress_image(World, TRUE, TRUE).rc

\* no engine instance and no converter is allocated
NothingAllocated ==
    /\ \A h \in 1..Len(engines) : ~engines[h].open
    /\ \A h \in 1..Len(cscs) : ~cscs[h].live

\* C13: when the engine rejects the configuration during openEncoder
\* (x264_encoder_open returns NULL) or openDecoder (the decoder is not found
\* or cannot be opened), the open call fails, the caller getting no context,
\* and no engine instance or converter created during the attempt remains
\* allocated.
C13_OpenFailureTotal ==
    /\ (last.op = "init_encoder" /\ ctx.encoder = NULL) =>
          (role = "failed" /\ NothingAllocated)
    /\ (last.op = "init_decoder" /\ (ctx.codec = NULL \/ ~engines[ctx.codec_ctx].opened)) =>
          (role = "failed" /\ NothingAllocated)

\* C14: after close (clean_encoder) no later operation on the same encoder
\* context - setQuality, setSpeed or encodeFrame - creates an engine or a
\* converter or brings the context back to Ready, and encodeFrame on the
\* closed context returns an error.
C14_ClosedIsTerminal ==
    [][(role = "encoder" /\ closed /\ fault = "none") =>
          /\ last'.ev.created = {}
          /\ ~Ready(ctx')
          /\ last'.op = "compress_image" => last'.rc # 0
      ]_vars

\* the converter a context holds
ConverterOf(r, c) == IF r = "encoder" THEN c.rgb2yuv ELSE c.yuv2rgb

\* a context that holds an engine and a converter
ReadyContext(r, c) ==
    IF r = "encoder" THEN Ready(c) ELSE c.codec_ctx # NULL /\ c.yuv2rgb # NULL

\* C15: when a reconfiguration of a Ready context (the hard path of
\* setQuality, setChromaFormat) replaces the converter, the old converter is
\* released only if the new one has been built, so that the context holds a
\* valid converter, the old one or the new one, when the call is over, even
\* if building the new one fails.
C15_ConverterReplacementOrder ==
    [][(/\ role \in {"encoder", "decoder"} /\ fault = "none"
        /\ ReadyContext(role, ctx)
        /\ last'.op \in {"set_encoding_quality", "set_decoder_csc_format"}) =>
          LET old == ConverterOf(role, ctx)
              new == ConverterOf(role, ctx')
          IN  /\ <<"csc", old>> \in last'.ev.released =>
                    (new # NULL /\ <<"csc", new>> \in last'.ev.created)
              /\ new # NULL
              /\ cscs'[new].live
      ]_vars

\* a context that has not been closed and whose last hard reconfiguration
\* failed partway: a decoder whose engine was not found or not opened, an
\* encoder whose engine was closed and not reopened
Broken(r, c, e, cl) ==
    /\ ~cl
    /\ \/ /\ r = "decoder"
          /\ \/ c.codec = NULL
             \/ c.codec_ctx = NULL
             \/ ~e[c.codec_ctx].opened
       \/ /\ r = "encoder"
          /\ c.encoder = NULL
          /\ \E h \in 1..Len(e) : ~e[h].open

\* C16: when a step of a hard reconfiguration has failed partway, the
\* context is in a terminal broken state: until it is closed it stays
\* broken, and every decodeFrame / encodeFrame returns an error without
\* invoking the engine.
C16_FailedReconfigurationContained ==
    [][(Broken(role, ctx, engines, closed) /\ fault = "none") =>
          /\ last'.op \notin CloseCalls => Broken(role', ctx', engines', closed')
          /\ last'.op \in {"decompress_image", "compress_image"} =>
                (last'.rc # 0 /\ last'.ev.invoked = 0)
      ]_vars

\* the profile that corresponds to a chroma format
ProfileOfChroma(chroma) ==
    CASE chroma = "4:2:0" -> PROFILE_BASELINE
      [] chroma = "4:2:2" -> PROFILE_HIGH422
      [] chroma = "4:4:4" -> PROFILE_HIGH444_PREDICTIVE
      [] OTHER -> "invalid"

\* C17: in every Ready state of an encoder context, for either value of the
\* chroma-switch capability flag, the stored profile corresponds to the
\* stored chroma format: baseline with 4:2:0, high422 with 4:2:2, high444
\* with 4:4:4.
C17_ProfileMatchesChroma ==
    (role = "encoder" /\ Ready(ctx)) =>
        ctx.profile = ProfileOfChroma(ChromaOfCsp(ctx.colour_sampling))

\* C18: for a VP8 encoder or decoder context, close releases both the
\* engine and the colour converter that open created: after open followed
\* by close no resource created for the context remains allocated.
C18_VpxCloseReleasesAll ==
    last.op \in {"vpx_clean_encoder", "vpx_clean_decoder"} =>
        /\ role = "freed"
        /\ NothingAllocated

\* C19: in every reachable state of an H.264 encoder context the stored
\* quantizer is the quantizer derived from the stored quality percentage,
\* and the stored chroma format (the x264 colour space and the pixel format
\* of the converter) is the format derived from the stored quality
\* percentage and the capability flag, the calls that setQuality skips
\* because the percentages differ only in their lowest bit included.
C19_StoredParametersDerived ==
    role = "encoder" =>
        /\ ctx.x264_quality = get_x264_quality(ctx.quality)
        /\ ctx.colour_sampling = get_x264_colour_sampling(ctx, ctx.quality)
        /\ ctx.csc_format
              = get_csc_format_for_x264_format(get_x264_colour_sampling(ctx, ctx.quality))

C19_Witness ==
    /\ role = "encoder" /\ fault = "none" /\ Ready(ctx)
    /\ last.op = "set_encoding_quality"
    /\ last.arg = 51
    /\ ~Reconfigured(last.ev)
    /\ ctx.quality = 50
    /\ ctx.x264_quality = 26
    /\ get_x264_quality(last.arg) = 25

\* C20: setQuality never changes the preset index: after a setSpeed(s), a
\* setQuality(pct) on a Ready encoder leaves the context's preset index as
\* it was (the index derived from s), and when it changes the chroma format
\* the new engine is opened with the preset of that index.
C20_QualityKeepsSpeed ==
    [][SetQualityOnReady =>
          /\ ctx'.encoding_preset = ctx.encoding_preset
          /\ (~ChromaKept /\ ctx'.encoder # NULL) =>
                engines'[ctx'.encoder].param.preset = preset_name(ctx.encoding_preset)
      ]_vars

\* the engine and the converter an H.264 context holds
EngineOf(r, c) == IF r = "encoder" THEN c.encoder ELSE c.codec_ctx

\* C21: in every reachable state an H.264 context holds at most one live
\* engine instance and at most one live converter (no other engine or
\* converter is live); whatever the sequence of open, setQuality, setSpeed,
\* setChromaFormat, encode / decode and close, close called more than once
\* included, every engine and converter created for the context has been
\* released at most once; and when close returns none is live.
C21_ResourceBalance ==
    role \in {"encoder", "decoder"} =>
        /\ \A h \in 1..Len(engines) : engines[h].open => h = EngineOf(role, ctx)
        /\ \A h \in 1..Len(cscs) : cscs[h].live => h = ConverterOf(role, ctx)
        /\ \A h \in 1..Len(engines) : engines[h].closes <= 1
        /\ \A h \in 1..Len(cscs) : cscs[h].frees <= 1
        /\ \A h \in 1..Len(engines) : engines[h].open => engines[h].closes = 0
        /\ \A h \in 1..Len(cscs) : cscs[h].live => cscs[h].frees = 0
        /\ last.op \in {"clean_encoder", "clean_decoder"} =>
              /\ NothingAllocated
              /\ EngineOf(role, ctx) = NULL
              /\ ConverterOf(role, ctx) = NULL

\* a second close in a row, on a context that went through a hard
\* reconfiguration
C21_Witness ==
    /\ role = "encoder"
    /\ last.op = "clean_encoder"
    /\ last.repeats = "reconfiguration"
    /\ last.ev.released = {}
    /\ Len(engines) = 2 /\ Len(cscs) = 2
    /\ \A h \in 1..2 : engines[h].closes = 1 /\ cscs[h].frees = 1

====
